---- MODULE Spec2Model ----
(***************************************************************************)
(* Model of forge's script broadcaster                                     *)
(* (cli/src/cmd/forge/script/broadcast.rs): ScriptArgs::send_transactions, *)
(* ScriptArgs::send_transaction and ScriptArgs::wait_for_receipts.         *)
(*                                                                         *)
(* A transaction is identified by its 1-based position in                  *)
(* deployment_sequence.transactions; a receipt is identified by the        *)
(* position of the transaction it belongs to.  The network (chain id       *)
(* query, nonce query, send, receipt) is the environment: every call       *)
(* returns any of the outcomes its Rust type allows.  print_receipt only    *)
(* writes to the terminal and has no state here.                           *)
(*                                                                         *)
(* The second part models the local trace identifier                       *)
(* (evm/src/trace/identifier.rs): LocalTraceIdentifier::new and            *)
(* identify_address, under the specification IdSpec.                       *)
(***************************************************************************)
EXTENDS Integers, Sequences, FiniteSets, TLC

\* ------------------------------------------------------------------ bounds
MaxTxs == 3
MaxWallets == 2
MaxDrift == 1
MaxArtifacts == 2

\* ------------------------------------------------------------ input domain
\* Addresses that a wallet can be loaded for.
WalletAddrs == {"a1", "a2"}

\* Addresses a transaction can declare as `from`; "a3" has no wallet.
Addrs == WalletAddrs \cup {"a3"}

\* Account nonce of each sender when the script was simulated.
StartNonce(a) == CASE a = "a1" -> 2 [] a = "a2" -> 0 [] OTHER -> 1

\* Number of transactions before position i declared by the same sender.
Earlier(froms, i) == Cardinality({j \in 1..(i - 1) : froms[j] = froms[i]})

\* The simulation pre-assigns nonces: each sender's transactions carry
\* consecutive nonces in declaration order.
MakeTxs(froms) ==
  [i \in 1..Len(froms) |->
     [from |-> froms[i], nonce |-> StartNonce(froms[i]) + Earlier(froms, i)]]

SeqsUpTo(S, n) == UNION {[1..m -> S] : m \in 0..n}

\* --------------------------------------------------------------- variables
VARIABLES
  wallets,      \* local_wallets: sequence of wallet addresses
  txs,          \* deployment_sequence.transactions
  receipts,     \* deployment_sequence.receipts
  pc,           \* position of send_transactions
  pos,          \* position of the `for payload in sequence` loop
  futs,         \* the local vec of not yet awaited send_transaction futures
  task,         \* state of the send_transaction future of each transaction
  sent,         \* log: transactions handed to the network, in order
  completed,    \* log: order in which the network resolved the submissions
  queried,      \* log: answer of the nonce query made for each transaction
  chainQueried, \* log: get_chainid was called
  error,        \* the error send_transactions returned
  resumed       \* number of receipts in the record when the run started

\* State of the trace identifier.
VARIABLES
  known,           \* known_contracts, in ArtifactId order
  local_contracts, \* the BTreeMap of the identifier, in key order
  idpc,            \* "off", "new" (not built yet) or "ready"
  history          \* log: (observed code, result) of the identify_address calls

idvars == <<known, local_contracts, idpc, history>>

vars == <<wallets, txs, receipts, pc, pos, futs, task, sent, completed,
          queried, chainQueried, error, resumed, known, local_contracts,
          idpc, history>>

\* ------------------------------------------------------------ pure helpers
Range(s) == {s[i] : i \in 1..Len(s)}

\* local_wallets.iter().find(|wallet| wallet.address() == from)
FindWalletOrAny(ws, from) == Len(ws) > 0
FindWallet(ws, from) == \E i \in 1..Len(ws) : ws[i] = from

\* let wait = local_wallets.len() > 1;
WaitInverted(ws) == Len(ws) = 1
Wait(ws) == Len(ws) > 1

\* transactions.into_iter().skip(receipts.len()): positions the loop visits.
SequenceNoSkip(n, k) == [i \in 1..n |-> i]
SequenceReversed(n, k) == [i \in 1..(IF n > k THEN n - k ELSE 0) |-> n + 1 - i]
Sequence(n, k) == [i \in 1..(IF n > k THEN n - k ELSE 0) |-> k + i]

\* Answers foundry_utils::next_nonce can give for a transaction's sender:
\* Err(_), or Ok(nonce) with the nonce the chain reports.
NonceAnswers(txNonce) ==
  {[ok |-> FALSE, nonce |-> 0]} \cup
  {[ok |-> TRUE, nonce |-> n] : n \in 0..(txNonce + MaxDrift)}

\* The `if wait { match next_nonce(..) {..} }` block of send_transaction.
NonceCheckNoCompare(wait, ans, txNonce) ==
  IF ~wait THEN "ok"
  ELSE IF ~ans.ok THEN "NonceQuery"
  ELSE "ok"
NonceCheckIgnoresWait(wait, ans, txNonce) ==
  IF ~ans.ok THEN "NonceQuery"
  ELSE IF ans.nonce # txNonce THEN "NonceDrift"
  ELSE "ok"
NonceCheck(wait, ans, txNonce) ==
  IF ~wait THEN "ok"
  ELSE IF ~ans.ok THEN "NonceQuery"
  ELSE IF ans.nonce # txNonce THEN "NonceDrift"
  ELSE "ok"

\* Outcome of send_transaction once the transaction was accepted by the
\* node: rcpt is what awaiting the pending transaction gave.
BroadcastOutcome(rcpt) ==
  CASE rcpt = "some" -> "ok"
    [] rcpt = "none" -> "ReceiptMissing"
    [] OTHER -> "BroadcastFailed"

\* receipts.sort_by(|a, b| a.1.cmp(&b.1)): stable, ascending by nonce.
RECURSIVE InsertByNonceDesc(_, _)
InsertByNonceDesc(s, x) ==
  IF s = <<>> THEN <<x>>
  ELSE IF s[Len(s)].nonce >= x.nonce THEN Append(s, x)
  ELSE Append(InsertByNonceDesc(SubSeq(s, 1, Len(s) - 1), x), s[Len(s)])

RECURSIVE InsertByNonce(_, _)
InsertByNonce(s, x) ==
  IF s = <<>> THEN <<x>>
  ELSE IF s[Len(s)].nonce <= x.nonce THEN Append(s, x)
  ELSE Append(InsertByNonce(SubSeq(s, 1, Len(s) - 1), x), s[Len(s)])

RECURSIVE SortByNonceDesc(_)
SortByNonceDesc(s) ==
  IF s = <<>> THEN <<>>
  ELSE InsertByNonceDesc(SortByNonceDesc(SubSeq(s, 1, Len(s) - 1)), s[Len(s)])

RECURSIVE SortByNonce(_)
SortByNonce(s) ==
  IF s = <<>> THEN <<>>
  ELSE InsertByNonce(SortByNonce(SubSeq(s, 1, Len(s) - 1)), s[Len(s)])

\* join_all(tasks).await: one result per future, in the order of the vec.
JoinResults(fs, tk, ts) ==
  [i \in 1..Len(fs) |->
     [state |-> tk[fs[i]], receipt |-> fs[i], nonce |-> ts[fs[i]].nonce]]

\* join_all resolves when every future of the vec has resolved.
Resolved(st) == st \notin {"created", "pending"}
JoinAllReadyOnFirstError(fs, tk) ==
  \/ \A i \in 1..Len(fs) : Resolved(tk[fs[i]])
  \/ \E i \in 1..Len(fs) : Resolved(tk[fs[i]]) /\ tk[fs[i]] # "ok"
JoinAllReady(fs, tk) == \A i \in 1..Len(fs) : Resolved(tk[fs[i]])

\* Position of the first Err in the results (0 when there is none).
FirstErr(res) ==
  IF \E i \in 1..Len(res) : res[i].state # "ok"
  THEN CHOOSE i \in 1..Len(res) :
         /\ res[i].state # "ok"
         /\ \A j \in 1..(i - 1) : res[j].state = "ok"
  ELSE 0

\* for receipt in res { Ok(v) => receipts.push(v), Err(e) => { err = e; break } }
SelectOk(res) ==
  LET F[i \in 0..Len(res)] ==
        IF i = 0 THEN <<>>
        ELSE IF res[i].state = "ok" THEN Append(F[i - 1], res[i])
        ELSE F[i - 1]
  IN F[Len(res)]

CollectOkNoBreak(res) == SelectOk(res)
CollectOkNoneOnError(res) == IF FirstErr(res) = 0 THEN res ELSE <<>>
CollectOk(res) ==
  IF FirstErr(res) = 0 THEN res ELSE SubSeq(res, 1, FirstErr(res) - 1)

CollectErrDropped(res) == "none"
CollectErr(res) ==
  IF FirstErr(res) = 0 THEN "none" ELSE res[FirstErr(res)].state

\* for (receipt, nonce) in receipts { deployment_sequence.add_receipt(receipt) }
AddReceiptsReplace(rs, sorted) == [i \in 1..Len(sorted) |-> sorted[i].receipt]
RECURSIVE AddReceipts(_, _)
AddReceipts(rs, sorted) ==
  IF sorted = <<>> THEN rs
  ELSE AddReceipts(Append(rs, sorted[1].receipt), SubSeq(sorted, 2, Len(sorted)))

\* ------------------------------------------------- trace identifier: data
Zeros(n) == [i \in 1..n |-> 0]

\* Runtime bytecodes of the model: an 11 byte code, the same with its last
\* byte or its last two bytes changed, with one byte appended, with one byte
\* removed, and the 10 byte code with its last byte changed.
CodeBase == Zeros(11)
CodeLastByte == Zeros(10) \o <<1>>
CodeLastTwo == Zeros(9) \o <<1, 1>>
CodeAppended == Zeros(12)
CodeShort == Zeros(10)
CodeShortLastByte == Zeros(9) \o <<1>>

Codes == {CodeBase, CodeLastByte, CodeLastTwo, CodeAppended, CodeShort,
          CodeShortLastByte}

\* Addresses of a trace.
TraceAddrs == {"x1", "x2"}

\* The i-th known artifact: its id.name, its Abi and its runtime code.
Artifact(i, code) ==
  [name |-> <<"contract", i>>, abi |-> <<"abi", i>>, code |-> code]

MinOf(a, b) == IF a <= b THEN a ELSE b
MaxOf(a, b) == IF a >= b THEN a ELSE b

\* foundry_utils::diff_score as the fraction num / den: differing bytes of
\* the common prefix plus the difference in length, over the longer length;
\* 0 for identical codes.
DiffScore(a, b) ==
  LET lo == MinOf(Len(a), Len(b))
      hi == MaxOf(Len(a), Len(b))
  IN [num |-> Cardinality({i \in 1..lo : a[i] # b[i]}) + (hi - lo),
      den |-> IF hi = 0 THEN 1 ELSE hi]

\* diff_score(known_code, code) < 0.1
SimilarInclusive(known_code, code) ==
  10 * DiffScore(known_code, code).num <= DiffScore(known_code, code).den
Similar(known_code, code) ==
  10 * DiffScore(known_code, code).num < DiffScore(known_code, code).den

\* Ord of Vec<u8>: lexicographic, a proper prefix first.
LexLess(a, b) ==
  \E k \in 1..(MinOf(Len(a), Len(b)) + 1) :
    /\ \A i \in 1..(k - 1) : a[i] = b[i]
    /\ \/ k <= Len(a) /\ k <= Len(b) /\ a[k] < b[k]
       \/ k = Len(a) + 1 /\ Len(a) < Len(b)

\* BTreeMap insert: the entry takes the place of one with an equal key and
\* the map stays in key order.
InsertEntry(reg, e) ==
  LET IsBefore(x) == LexLess(x.code, e.code)
      IsAfter(x) == LexLess(e.code, x.code)
  IN SelectSeq(reg, IsBefore) \o <<e>> \o SelectSeq(reg, IsAfter)

\* Variant that keeps the entry already stored under the key.
InsertEntryIfAbsent(reg, e) ==
  IF \E i \in 1..Len(reg) : reg[i].code = e.code THEN reg
  ELSE InsertEntry(reg, e)

\* LocalTraceIdentifier::new: known_contracts.iter().map(..).collect()
RECURSIVE NewKeepFirstUpTo(_, _)
NewKeepFirstUpTo(kn, n) ==
  IF n = 0 THEN <<>>
  ELSE InsertEntryIfAbsent(NewKeepFirstUpTo(kn, n - 1),
         [code |-> kn[n].code, name |-> kn[n].name, abi |-> kn[n].abi])

RECURSIVE NewUpTo(_, _)
NewUpTo(kn, n) ==
  IF n = 0 THEN <<>>
  ELSE InsertEntry(NewUpTo(kn, n - 1),
         [code |-> kn[n].code, name |-> kn[n].name, abi |-> kn[n].abi])

NewKeepFirst(kn) == NewKeepFirstUpTo(kn, Len(kn))
New(kn) == NewUpTo(kn, Len(kn))

\* Option: None is the empty sequence, Some(x) the sequence of x.
Absent == [contract |-> <<>>, label |-> <<>>, abi |-> <<>>]
Matched(e) == [contract |-> <<e.name>>, label |-> <<e.name>>, abi |-> <<e.abi>>]

\* Variant that looks at the first entry of the map only.
IdentifyAddressFirstOnly(reg, address, code) ==
  IF code = <<>> THEN Absent
  ELSE IF Len(reg) > 0 /\ Similar(reg[1].code, code[1]) THEN Matched(reg[1])
  ELSE Absent

\* identify_address: the first entry, in key order, that is similar.
IdentifyAddressPlain(reg, address, code) ==
  IF code = <<>> THEN Absent
  ELSE LET hits == {i \in 1..Len(reg) : Similar(reg[i].code, code[1])}
       IN IF hits = {} THEN Absent
          ELSE Matched(reg[CHOOSE i \in hits : \A j \in hits : i <= j])

\* Variant whose answer depends on the address.
IdentifyAddressByAddress(reg, address, code) ==
  IF address = "x1" THEN IdentifyAddressPlain(reg, address, code) ELSE Absent

IdentifyAddress(reg, address, code) ==
  IF code = <<>> THEN Absent
  ELSE LET hits == {i \in 1..Len(reg) : Similar(reg[i].code, code[1])}
       IN IF hits = {} THEN Absent
          ELSE Matched(reg[CHOOSE i \in hits : \A j \in hits : i <= j])

\* -------------------------------------------------------------------- Init
\* No trace identifier in a run of the broadcaster.
IdOff ==
  /\ known = <<>>
  /\ local_contracts = <<>>
  /\ idpc = "off"
  /\ history = {}

Init ==
  /\ IdOff
  /\ wallets \in SeqsUpTo(WalletAddrs, MaxWallets)
  /\ \E froms \in SeqsUpTo(Addrs, MaxTxs) : txs = MakeTxs(froms)
  /\ \E k \in 0..MaxTxs : k <= Len(txs) /\ receipts = [i \in 1..k |-> i]
  /\ resumed = Len(receipts)
  /\ pc = "start"
  /\ pos = 0
  /\ futs = <<>>
  /\ task = [i \in 1..Len(txs) |-> "idle"]
  /\ sent = <<>>
  /\ completed = <<>>
  /\ queried = [i \in 1..Len(txs) |-> <<>>]
  /\ chainQueried = FALSE
  /\ error = "none"

\* ----------------------------------------------------------------- actions
\* The futures still held when send_transactions returns are dropped.
DropFutures(tk) ==
  [i \in DOMAIN tk |-> IF tk[i] = "created" THEN "dropped" ELSE tk[i]]

\* if local_wallets.is_empty() { eyre::bail!(..) }
NoWalletsUnchecked(ws) == FALSE
NoWallets(ws) == Len(ws) = 0

\* Collect the wallets; bail when there is none.
LoadWallets ==
  /\ pc = "start"
  /\ IF NoWallets(wallets)
     THEN pc' = "failed" /\ error' = "NoSigner"
     ELSE pc' = "chain" /\ error' = error
  /\ UNCHANGED idvars
  /\ UNCHANGED <<wallets, txs, receipts, pos, futs, task, sent, completed,
                 queried, chainQueried, resumed>>

\* provider.get_chainid().await?  and the construction of `sequence`.
GetChainId ==
  /\ pc = "chain"
  /\ chainQueried' = TRUE
  /\ \E ok \in BOOLEAN :
       IF ok
       THEN pc' = "loop" /\ pos' = 1 /\ error' = error
       ELSE pc' = "failed" /\ pos' = pos /\ error' = "ChainId"
  /\ UNCHANGED idvars
  /\ UNCHANGED <<wallets, txs, receipts, futs, task, sent, completed,
                 queried, resumed>>

Remaining == Sequence(Len(txs), resumed)

\* Loop body, Err(e) payload: no wallet has the transaction's `from`.
LoopUnknownSender ==
  /\ pc = "loop"
  /\ pos <= Len(Remaining)
  /\ ~FindWallet(wallets, txs[Remaining[pos]].from)
  /\ pc' = "failed"
  /\ error' = "UnknownSender"
  /\ task' = DropFutures(task)
  /\ UNCHANGED idvars
  /\ UNCHANGED <<wallets, txs, receipts, pos, futs, sent, completed,
                 queried, chainQueried, resumed>>

\* Variant of LoopPush in which creating the future already starts it.
LoopPushEager ==
  /\ pc = "loop"
  /\ pos <= Len(Remaining)
  /\ FindWallet(wallets, txs[Remaining[pos]].from)
  /\ ~Wait(wallets)
  /\ futs' = Append(futs, Remaining[pos])
  /\ task' = [task EXCEPT ![Remaining[pos]] = "pending"]
  /\ sent' = Append(sent, Remaining[pos])
  /\ pos' = pos + 1
  /\ UNCHANGED idvars
  /\ UNCHANGED <<wallets, txs, receipts, pc, completed, queried,
                 chainQueried, error, resumed>>

\* Loop body, Ok payload, !wait: the future is created and pushed, not polled.
LoopPush ==
  /\ pc = "loop"
  /\ pos <= Len(Remaining)
  /\ FindWallet(wallets, txs[Remaining[pos]].from)
  /\ ~Wait(wallets)
  /\ futs' = Append(futs, Remaining[pos])
  /\ task' = [task EXCEPT ![Remaining[pos]] = "created"]
  /\ pos' = pos + 1
  /\ UNCHANGED idvars
  /\ UNCHANGED <<wallets, txs, receipts, pc, sent, completed, queried,
                 chainQueried, error, resumed>>

\* Loop body, Ok payload, wait: send_transaction is awaited in place.  This
\* step runs it up to the network send: nonce query, comparison, send.
LoopSendWait ==
  /\ pc = "loop"
  /\ pos <= Len(Remaining)
  /\ FindWallet(wallets, txs[Remaining[pos]].from)
  /\ Wait(wallets)
  /\ LET i == Remaining[pos] IN
     \E ans \in NonceAnswers(txs[i].nonce) :
       LET chk == NonceCheck(TRUE, ans, txs[i].nonce) IN
       /\ queried' = [queried EXCEPT ![i] = <<ans>>]
       /\ IF chk # "ok"
          THEN /\ pc' = "failed"
               /\ error' = chk
               /\ task' = [task EXCEPT ![i] = chk]
               /\ UNCHANGED <<sent, completed>>
          ELSE /\ sent' = Append(sent, i)
               /\ \E sendOk \in BOOLEAN :
                    IF sendOk
                    THEN /\ pc' = "await"
                         /\ error' = error
                         /\ task' = [task EXCEPT ![i] = "pending"]
                         /\ completed' = completed
                    ELSE /\ pc' = "failed"
                         /\ error' = "BroadcastFailed"
                         /\ task' = [task EXCEPT ![i] = "BroadcastFailed"]
                         /\ completed' = Append(completed, i)
  /\ UNCHANGED idvars
  /\ UNCHANGED <<wallets, txs, receipts, pos, futs, chainQueried, resumed>>

\* wait: the pending transaction resolves; on a receipt it is added to the
\* record and the loop goes on, otherwise the error is returned.
LoopAwait ==
  /\ pc = "await"
  /\ LET i == Remaining[pos] IN
     \E rcpt \in {"some", "none", "err"} :
       LET out == BroadcastOutcome(rcpt) IN
       /\ task' = [task EXCEPT ![i] = out]
       /\ completed' = Append(completed, i)
       /\ IF out = "ok"
          THEN /\ receipts' = Append(receipts, i)
               /\ pos' = pos + 1
               /\ pc' = "loop"
               /\ error' = error
          ELSE /\ pc' = "failed"
               /\ error' = out
               /\ UNCHANGED <<receipts, pos>>
  /\ UNCHANGED idvars
  /\ UNCHANGED <<wallets, txs, futs, sent, queried, chainQueried, resumed>>

\* The loop is over: wait_for_receipts is called and join_all polls the
\* futures.
LoopEnd ==
  /\ pc = "loop"
  /\ pos > Len(Remaining)
  /\ pc' = "join"
  /\ UNCHANGED idvars
  /\ UNCHANGED <<wallets, txs, receipts, pos, futs, task, sent, completed,
                 queried, chainQueried, error, resumed>>

\* A future polled by join_all runs send_transaction up to the network
\* send.  It was created with wait = false, so the nonce block is skipped.
JoinSend(i) ==
  /\ pc = "join"
  /\ task[i] = "created"
  /\ \E ans \in NonceAnswers(txs[i].nonce) :
       LET chk == NonceCheck(FALSE, ans, txs[i].nonce) IN
       IF chk # "ok"
       THEN /\ task' = [task EXCEPT ![i] = chk]
            /\ completed' = Append(completed, i)
            /\ sent' = sent
       ELSE /\ sent' = Append(sent, i)
            /\ \E sendOk \in BOOLEAN :
                 IF sendOk
                 THEN /\ task' = [task EXCEPT ![i] = "pending"]
                      /\ completed' = completed
                 ELSE /\ task' = [task EXCEPT ![i] = "BroadcastFailed"]
                      /\ completed' = Append(completed, i)
  /\ UNCHANGED idvars
  /\ UNCHANGED <<wallets, txs, receipts, pc, pos, futs, queried,
                 chainQueried, error, resumed>>

\* A pending transaction of the batch resolves.
JoinResolve(i) ==
  /\ pc = "join"
  /\ task[i] = "pending"
  /\ \E rcpt \in {"some", "none", "err"} :
       task' = [task EXCEPT ![i] = BroadcastOutcome(rcpt)]
  /\ completed' = Append(completed, i)
  /\ UNCHANGED idvars
  /\ UNCHANGED <<wallets, txs, receipts, pc, pos, futs, sent, queried,
                 chainQueried, error, resumed>>

\* join_all has resolved: the rest of wait_for_receipts and the return of
\* send_transactions.
WaitForReceipts ==
  /\ pc = "join"
  /\ JoinAllReady(futs, task)
  /\ LET res == JoinResults(futs, task, txs)
         err == CollectErr(res)
     IN /\ receipts' = AddReceipts(receipts, SortByNonce(CollectOk(res)))
        /\ error' = err
        /\ pc' = IF err = "none" THEN "done" ELSE "failed"
  /\ UNCHANGED idvars
  /\ UNCHANGED <<wallets, txs, pos, futs, task, sent, completed, queried,
                 chainQueried, resumed>>

Next ==
  \/ LoadWallets
  \/ GetChainId
  \/ LoopUnknownSender
  \/ LoopPush
  \/ LoopSendWait
  \/ LoopAwait
  \/ LoopEnd
  \/ \E i \in 1..Len(txs) : JoinSend(i)
  \/ \E i \in 1..Len(txs) : JoinResolve(i)
  \/ WaitForReceipts

Spec == Init /\ [][Next]_vars

\* ---------------------------------------------- trace identifier: actions
bvars == <<wallets, txs, receipts, pc, pos, futs, task, sent, completed,
           queried, chainQueried, error, resumed>>

\* No broadcast in a run of the trace identifier.
BroadcasterOff ==
  /\ wallets = <<>>
  /\ txs = <<>>
  /\ receipts = <<>>
  /\ pc = "off"
  /\ pos = 0
  /\ futs = <<>>
  /\ task = <<>>
  /\ sent = <<>>
  /\ completed = <<>>
  /\ queried = <<>>
  /\ chainQueried = FALSE
  /\ error = "none"
  /\ resumed = 0

IdInit ==
  /\ BroadcasterOff
  /\ \E cs \in SeqsUpTo(Codes, MaxArtifacts) :
       known = [i \in 1..Len(cs) |-> Artifact(i, cs[i])]
  /\ local_contracts = <<>>
  /\ idpc = "new"
  /\ history = {}

\* LocalTraceIdentifier::new(known_contracts)
IdNew ==
  /\ idpc = "new"
  /\ local_contracts' = New(known)
  /\ idpc' = "ready"
  /\ UNCHANGED <<known, history>>
  /\ UNCHANGED bvars

\* identify_address(&self, address, code): code is None or Some(bytes).
IdIdentify ==
  /\ idpc = "ready"
  /\ \E address \in TraceAddrs :
     \E code \in {<<>>} \cup {<<c>> : c \in Codes} :
       history' = history \cup
         {[code |-> code,
           result |-> IdentifyAddress(local_contracts, address, code)]}
  /\ UNCHANGED <<known, local_contracts, idpc>>
  /\ UNCHANGED bvars

IdNext ==
  \/ IdNew
  \/ IdIdentify

IdSpec == IdInit /\ [][IdNext]_vars

\* ------------------------------------------------------------- type sanity
TaskStates == {"idle", "created", "dropped", "pending", "ok", "NonceDrift",
               "NonceQuery", "BroadcastFailed", "ReceiptMissing"}

TypeOK ==
  /\ pc \in {"start", "chain", "loop", "await", "join", "done", "failed"}
  /\ \A i \in 1..Len(txs) : task[i] \in TaskStates
  /\ Range(sent) \subseteq 1..Len(txs)
  /\ Range(receipts) \subseteq 1..Len(txs)

\* ------------------------------------------------------ shared vocabulary
Terminated == pc \in {"done", "failed"}

\* Submissions handed to the network and not yet resolved.
Outstanding == {i \in 1..Len(txs) : task[i] = "pending"}

\* Transactions the run has to broadcast, and those among them whose `from`
\* is the address of no loaded wallet.
ToBroadcast == (resumed + 1)..Len(txs)
UnknownSenders ==
  {i \in ToBroadcast : \A w \in 1..Len(wallets) : wallets[w] # txs[i].from}

Failure(st) ==
  st \in {"NonceDrift", "NonceQuery", "BroadcastFailed", "ReceiptMissing"}

\* Every earlier transaction of the run has its receipt.
EarlierReceipted(i) == \A j \in ToBroadcast : j < i => task[j] = "ok"

OutOfOrder(s) == \E a, b \in 1..Len(s) : a < b /\ s[a] > s[b]

\* ---------------------------------------------------------------------- C1
\* C1 (as stated): with exactly one wallet loaded at most one transaction is
\* outstanding, and a transaction is outstanding only when every earlier
\* transaction of the run has its receipt.
C1_SingleSignerSequential ==
  Len(wallets) = 1 =>
    /\ Cardinality(Outstanding) <= 1
    /\ \A i \in Outstanding : EarlierReceipted(i)

\* C1 (amended): the strictly sequential policy is the one of a run with
\* more than one wallet loaded: then at most one transaction is outstanding
\* and it is sent only after every earlier one of the run has its receipt.
C1_MultiSignerSequential ==
  Len(wallets) > 1 =>
    /\ Cardinality(Outstanding) <= 1
    /\ \A i \in Outstanding : EarlierReceipted(i)

C1_Witness ==
  /\ Len(wallets) > 1
  /\ pc = "await"
  /\ Len(receipts) > resumed

\* ---------------------------------------------------------------------- C2
\* C2: with exactly one wallet loaded, a successful run has appended the
\* receipts in declaration order: the i-th receipt appended is the one of
\* the i-th transaction that had no receipt, whatever the completion order.
C2_SingleSignerDeclarationOrder ==
  (Len(wallets) = 1 /\ pc = "done") =>
    /\ Len(receipts) - resumed = Len(txs) - resumed
    /\ \A i \in 1..(Len(receipts) - resumed) : receipts[resumed + i] = resumed + i

C2_Witness ==
  /\ Len(wallets) = 1
  /\ pc = "done"
  /\ Len(txs) - resumed >= 2
  /\ OutOfOrder(completed)

\* ---------------------------------------------------------------------- C3
\* C3: after a failed run the receipts of the record are those of a leading
\* prefix of the transactions: receipt i is the receipt of transaction i.
C3_FailedRunLeavesPrefix ==
  pc = "failed" =>
    /\ Len(receipts) <= Len(txs)
    /\ \A i \in 1..Len(receipts) : receipts[i] = i

C3_Witness ==
  /\ pc = "failed"
  /\ Len(receipts) > resumed
  /\ \E i \in Range(futs) : task[i] = "ok" /\ i \notin Range(receipts)

\* ---------------------------------------------------------------------- C4
\* C4: a run that starts with k receipts never submits one of the first k
\* transactions, submits no transaction twice, and when it succeeds it has
\* submitted exactly len(transactions) - k transactions.
C4_ResumeSkipsReceipted ==
  resumed > 0 =>
    /\ \A i \in 1..Len(sent) : sent[i] > resumed
    /\ \A a, b \in 1..Len(sent) : a # b => sent[a] # sent[b]
    /\ pc = "done" => Len(sent) = Len(txs) - resumed

C4_Witness ==
  /\ resumed > 0
  /\ pc = "done"
  /\ Len(sent) >= 2

\* ---------------------------------------------------------------------- C5
\* C5 (as stated): when the batch of concurrent submissions contains a
\* failure, every submission of the batch that completed with a receipt has
\* it in the record when send_transactions returns the error.
C5_NoReceiptLost ==
  pc = "failed" =>
    \A i \in Range(futs) : task[i] = "ok" => i \in Range(receipts)

\* C5 (amended): when the batch contains a failure, the receipts in the
\* record on return are exactly those of the submissions that precede, in
\* declaration order, the first failed submission of the batch; a receipt
\* obtained for a later submission is discarded.
C5_ReceiptsBeforeFirstFailureKept ==
  pc = "failed" =>
    \A i \in Range(futs) :
      task[i] = "ok" =>
        (i \in Range(receipts) <=>
           \A j \in Range(futs) : j < i => task[j] = "ok")

C5_Witness ==
  /\ pc = "failed"
  /\ \E i, j, l \in Range(futs) :
       /\ i < j /\ j < l
       /\ task[i] = "ok" /\ Failure(task[j]) /\ task[l] = "ok"
       /\ i \in Range(receipts)

\* ---------------------------------------------------------------------- C6
\* C6: send_transactions has never returned while a submission it created
\* and started is unresolved; the error of a failed batch is returned after
\* every submission of the batch has resolved.
C6_NoOrphanedSubmission ==
  Terminated => \A i \in 1..Len(txs) : task[i] \notin {"created", "pending"}

C6_Witness ==
  /\ pc = "failed"
  /\ Len(futs) >= 2
  /\ \E a, b \in 1..Len(completed) :
       a < b /\ Failure(task[completed[a]]) /\ task[completed[b]] = "ok"

\* ---------------------------------------------------------------------- C7
\* C7: with more than one wallet loaded, in the record of a successful run
\* the receipts of each signer's transactions are in ascending nonce order.
C7_PerSignerNonceOrder ==
  (Len(wallets) > 1 /\ pc = "done") =>
    \A a, b \in 1..Len(receipts) :
      (a < b /\ txs[receipts[a]].from = txs[receipts[b]].from) =>
        txs[receipts[a]].nonce < txs[receipts[b]].nonce

C7_Witness ==
  /\ Len(wallets) > 1
  /\ pc = "done"
  /\ \E a, b, c \in (resumed + 1)..Len(receipts) :
       /\ a < b /\ b < c
       /\ txs[receipts[a]].from = txs[receipts[c]].from
       /\ txs[receipts[a]].from # txs[receipts[b]].from

\* ---------------------------------------------------------------------- C8
\* C8: with more than one wallet loaded, when the nonce query made for a
\* transaction answers a nonce other than the one the transaction carries,
\* the run has failed with the nonce-drift error and neither that
\* transaction nor a later one has been sent.
NonceDrifted(i) ==
  /\ queried[i] # <<>>
  /\ queried[i][1].ok
  /\ queried[i][1].nonce # txs[i].nonce

C8_NonceDriftAborts ==
  Len(wallets) > 1 =>
    \A i \in 1..Len(txs) :
      NonceDrifted(i) =>
        /\ pc = "failed"
        /\ error = "NonceDrift"
        /\ \A j \in Range(sent) : j < i

C8_Witness ==
  /\ Len(wallets) > 1
  /\ \E i \in 1..Len(txs) : NonceDrifted(i) /\ i < Len(txs)
  /\ Len(sent) >= 1

\* ---------------------------------------------------------------------- C9
\* C9 (as stated): a transaction of the run whose `from` is the address of
\* no loaded wallet is never submitted, and the run always fails with the
\* unknown-sender error.  Stated for the runs that loaded a wallet and
\* obtained the chain id, the only ones that look at a transaction.
C9_UnknownSenderAlwaysReported ==
  (UnknownSenders # {} /\ Len(wallets) >= 1 /\ error # "ChainId") =>
    /\ UnknownSenders \cap Range(sent) = {}
    /\ Terminated => (pc = "failed" /\ error = "UnknownSender")

\* C9 (amended): such a transaction is never submitted and the run always
\* fails; the error is the unknown-sender error unless the run stops before
\* it reaches the transaction: no wallet loaded, chain id query failed, or,
\* with more than one wallet, an earlier transaction of the run failed.
C9_UnknownSenderNeverSent ==
  UnknownSenders # {} =>
    /\ UnknownSenders \cap Range(sent) = {}
    /\ Terminated =>
         /\ pc = "failed"
         /\ \/ error = "UnknownSender"
            \/ error = "NoSigner" /\ Len(wallets) = 0
            \/ error = "ChainId"
            \/ /\ Len(wallets) > 1
               /\ \E j \in ToBroadcast :
                    /\ \A u \in UnknownSenders : j < u
                    /\ task[j] = error

C9_Witness ==
  /\ pc = "failed"
  /\ error = "UnknownSender"
  /\ Len(sent) >= 1
  /\ UnknownSenders # {}

\* --------------------------------------------------------------------- C10
\* C10: when a run returns success the record holds one receipt per
\* transaction.
C10_SuccessMeansAllReceipted ==
  pc = "done" =>
    /\ Len(receipts) = Len(txs)
    /\ Range(receipts) = 1..Len(txs)

C10_Witness ==
  /\ pc = "done"
  /\ Len(txs) - resumed >= 2
  /\ Len(sent) = Len(txs) - resumed

\* --------------------------------------------------------------------- C11
\* C11: every step changes the receipts of the record only by appending at
\* the end (the receipts of an earlier state stay an unchanged leading
\* prefix, the prefix of a previous run included) and never changes the
\* transactions of the record.
C11_ReceiptsAppendOnly ==
  [][/\ txs' = txs
     /\ Len(receipts') >= Len(receipts)
     /\ SubSeq(receipts', 1, Len(receipts)) = receipts]_vars

C11_Witness ==
  /\ resumed > 0
  /\ Len(receipts) >= resumed + 2
  /\ Len(wallets) = 1

\* --------------------------------------------------------------------- C12
\* C12: with no wallet loaded the run fails with the no-signer error, no
\* network call (chain id query, nonce query, send) is ever made and the
\* record is as it was.
C12_NoSignerBeforeNetwork ==
  Len(wallets) = 0 =>
    /\ ~chainQueried
    /\ sent = <<>>
    /\ \A i \in 1..Len(txs) : queried[i] = <<>>
    /\ receipts = [i \in 1..resumed |-> i]
    /\ pc # "start" => (pc = "failed" /\ error = "NoSigner")

C12_Witness ==
  /\ Len(wallets) = 0
  /\ pc = "failed"
  /\ error = "NoSigner"
  /\ Len(txs) > resumed

\* --------------------------------------------------------------------- C17
\* C17: with more than one wallet loaded, a transaction is sent only when
\* the receipt of every earlier transaction of the run is already in the
\* record; at most one submission is outstanding, no submission is deferred
\* to the batch, and the receipts are recorded in declaration order.
C17_MultiWalletRecordsBeforeNextSend ==
  Len(wallets) > 1 =>
    /\ \A i \in Range(sent) :
         \A j \in ToBroadcast : j < i => j \in Range(receipts)
    /\ Cardinality(Outstanding) <= 1
    /\ futs = <<>>
    /\ \A i \in 1..Len(receipts) : receipts[i] = i

C17_Witness ==
  /\ Len(wallets) > 1
  /\ Len(sent) >= 2
  /\ pc = "await"
  /\ \A i, j \in ToBroadcast : txs[i].from = txs[j].from

\* --------------------------------------------------------------------- C18
\* C18: with exactly one wallet loaded no nonce query is made for any
\* transaction, no submission ends with the nonce-drift (or nonce-query)
\* error and the run never fails with it.
C18_SingleWalletNoNonceCheck ==
  Len(wallets) = 1 =>
    /\ \A i \in 1..Len(txs) : queried[i] = <<>>
    /\ \A i \in 1..Len(txs) : task[i] \notin {"NonceDrift", "NonceQuery"}
    /\ error \notin {"NonceDrift", "NonceQuery"}

C18_Witness ==
  /\ Len(wallets) = 1
  /\ pc = "join"
  /\ Len(sent) >= 2
  /\ \A i \in 1..Len(txs) : queried[i] = <<>>

\* --------------------------------------------------------------------- C19
\* C19: with exactly one wallet loaded, when a transaction of the run has a
\* `from` that matches no wallet, no transaction is ever sent, the record
\* keeps its receipts, and the run fails; the futures prepared for the
\* earlier transactions are dropped without having been started.
C19_SingleWalletUnknownSenderSendsNothing ==
  (Len(wallets) = 1 /\ UnknownSenders # {}) =>
    /\ sent = <<>>
    /\ receipts = [i \in 1..resumed |-> i]
    /\ Outstanding = {}
    /\ Terminated =>
         /\ pc = "failed"
         /\ error \in {"UnknownSender", "ChainId"}
         /\ \A i \in 1..Len(txs) : task[i] \in {"idle", "dropped"}

C19_Witness ==
  /\ Len(wallets) = 1
  /\ pc = "failed"
  /\ error = "UnknownSender"
  /\ Len(txs) \in UnknownSenders
  /\ \E i, j \in 1..Len(txs) : i # j /\ task[i] = "dropped" /\ task[j] = "dropped"

\* ------------------------------------------- trace identifier vocabulary
Present(r) == r.contract # <<>> /\ r.label # <<>> /\ r.abi # <<>>
FullyAbsent(r) == r.contract = <<>> /\ r.label = <<>> /\ r.abi = <<>>

\* Score of registry entry i against the observed code c, and its order.
ScoreOf(i, c) == DiffScore(local_contracts[i].code, c)
ScoreLeq(s, t) == s.num * t.den <= t.num * s.den
BelowThreshold(s) == 10 * s.num < s.den

\* Entries of the registry a result can have been taken from.
EntriesOf(r) ==
  {i \in 1..Len(local_contracts) :
     /\ r.contract = <<local_contracts[i].name>>
     /\ r.abi = <<local_contracts[i].abi>>}

\* --------------------------------------------------------------------- C13
\* C13: for observed bytecode, the result is present only when the minimum
\* score over the registry is below 0.1, and then its name and interface
\* are those of an entry whose score is that minimum.
C13_ReturnsLowestScore ==
  \A h \in history :
    (h.code # <<>> /\ Present(h.result)) =>
      \E i \in EntriesOf(h.result) :
        /\ BelowThreshold(ScoreOf(i, h.code[1]))
        /\ \A j \in 1..Len(local_contracts) :
             ScoreLeq(ScoreOf(i, h.code[1]), ScoreOf(j, h.code[1]))

\* --------------------------------------------------------------------- C14
\* C14: the result is fully absent exactly when no bytecode is supplied or
\* every registry entry scores 0.1 or more; otherwise the three components
\* are present, the label equals the display name and the interface is the
\* one of the entry the name comes from.
C14_AbsentOrFullyPresent ==
  \A h \in history :
    LET none == \/ h.code = <<>>
                \/ \A i \in 1..Len(local_contracts) :
                     ~BelowThreshold(ScoreOf(i, h.code[1]))
    IN /\ none => FullyAbsent(h.result)
       /\ ~none =>
            /\ Present(h.result)
            /\ h.result.label = h.result.contract
            /\ EntriesOf(h.result) # {}

C14_Witness ==
  /\ \E h \in history : h.code # <<>> /\ Present(h.result)
  /\ \E h \in history : h.code = <<>>
  /\ \E h \in history :
       /\ h.code # <<>>
       /\ FullyAbsent(h.result)
       /\ \E i \in 1..Len(local_contracts) :
            LET sc == ScoreOf(i, h.code[1]) IN 10 * sc.num = sc.den

\* --------------------------------------------------------------------- C15
\* C15: when the observed bytecode is identical to the runtime code of a
\* registry entry (score 0), the result is present.
C15_IdenticalCodeMatched ==
  \A h \in history :
    (/\ h.code # <<>>
     /\ \E i \in 1..Len(local_contracts) :
          /\ local_contracts[i].code = h.code[1]
          /\ ScoreOf(i, h.code[1]).num = 0) =>
      Present(h.result)

C15_Witness ==
  /\ Len(local_contracts) >= 2
  /\ \E h \in history :
       /\ h.code # <<>>
       /\ local_contracts[2].code = h.code[1]
       /\ Present(h.result)

\* --------------------------------------------------------------------- C16
\* C16: for a fixed registry, calls with the same observed bytecode return
\* the same result whatever the address and the calls made before, also
\* when entries tie for the score; no call changes the registry.
C16_DeterministicReadOnly ==
  /\ [](\A g, h \in history : g.code = h.code => g.result = h.result)
  /\ [][idpc = "ready" => local_contracts' = local_contracts]_vars

C16_Witness ==
  /\ Cardinality(history) >= 3
  /\ \E h \in history :
       /\ h.code # <<>>
       /\ Present(h.result)
       /\ \E i, j \in 1..Len(local_contracts) :
            /\ i # j
            /\ BelowThreshold(ScoreOf(i, h.code[1]))
            /\ ScoreOf(i, h.code[1]).num > 0
            /\ ScoreLeq(ScoreOf(i, h.code[1]), ScoreOf(j, h.code[1]))
            /\ ScoreLeq(ScoreOf(j, h.code[1]), ScoreOf(i, h.code[1]))

\* --------------------------------------------------------------------- C20
\* C20: the registry keeps one entry per distinct runtime bytecode, the one
\* of the last artifact (in ArtifactId order) with that bytecode; the name
\* and interface of an earlier artifact with the same bytecode are never
\* returned.
Shadowed == {i \in 1..Len(known) :
               \E j \in 1..Len(known) : i < j /\ known[i].code = known[j].code}

C20_OneEntryPerBytecode ==
  idpc = "ready" =>
    /\ Len(local_contracts) = Cardinality({known[i].code : i \in 1..Len(known)})
    /\ \A i \in 1..Len(known) :
         i \notin Shadowed =>
           \E e \in 1..Len(local_contracts) :
             /\ local_contracts[e].code = known[i].code
             /\ local_contracts[e].name = known[i].name
             /\ local_contracts[e].abi = known[i].abi
    /\ \A h \in history : \A i \in Shadowed :
         /\ h.result.contract # <<known[i].name>>
         /\ h.result.abi # <<known[i].abi>>

C20_Witness ==
  /\ idpc = "ready"
  /\ Shadowed # {}
  /\ \E h \in history : \E i \in Shadowed :
       h.code = <<known[i].code>> /\ Present(h.result)

====
